---- MODULE Spec2Model ----
(***************************************************************************)
(* Model of bot/tf_api_client.py: the rank authority (get_rank_level,      *)
(* can_modify_rank) and the membership API client (TFSystemAPI._request,   *)
(* search_member, find_member_by_name, change_member_rank,                 *)
(* change_rank_by_name).                                                   *)
(*                                                                         *)
(* Python values whose type the code does not control (a parsed JSON body, *)
(* the value a method returns) are records tagged with their Python type:  *)
(* [type |-> "dict", value |-> d], [type |-> "list", value |-> s],         *)
(* [type |-> "NoneType"].  A dict is a TLA+ function whose domain is its   *)
(* set of keys.  A formatted string (f-string) is the sequence of its      *)
(* pieces, so a message carries the exact names put into it.               *)
(***************************************************************************)
EXTENDS Integers, Sequences, FiniteSets, TLC

VARIABLES
    op,                \* the operation called: "", "can_modify_rank", "get_status", "change_rank_by_name"
    pc,                \* position in it: "idle", "await_status", "await_search", "await_patch", "done", "raised"
    member_name,       \* argument member_name of change_rank_by_name
    user_rank,         \* argument user_rank (can_modify_rank / change_rank_by_name)
    target_rank,       \* argument target_rank of the last can_modify_rank call
    target_member_id,  \* argument target_member_id of the last can_modify_rank call
    user_member_id,    \* argument user_member_id of the last can_modify_rank call
    can_modify,        \* value returned by the last can_modify_rank call
    discord_user_id,   \* change_rank_by_name: the requesting actor, as the member id it has in the remote service
    requests,          \* HTTP requests issued by the current call, in order
    responses,         \* outcome of each HTTP request, in order
    returns,           \* value _request returned for each HTTP request, in order
    member,            \* change_rank_by_name: local variable member
    result,            \* value returned by the operation
    exc                \* exception that escaped the operation, "" if none

vars == <<op, pc, member_name, user_rank, target_rank, target_member_id, user_member_id, can_modify,
          discord_user_id, requests, responses, returns, member, result, exc>>

---------------------------------------------------------------------------
(* Bounds of the model *)

\* member ids returned by the remote service range over 0..MaxId
MaxId == 2
\* a search response lists at most MaxMatches members
MaxMatches == 2

---------------------------------------------------------------------------
(* Python values *)

\* Python None where a str is expected (a value outside every modelled string)
NoneStr == "<None>"
\* Python None where an int is expected
NoneId == -1

EmptyDict == [k \in {} |-> 0]
PyNone == [type |-> "NoneType"]
PyDict(d) == [type |-> "dict", value |-> d]
PyList(s) == [type |-> "list", value |-> s]

\* bool(v) of a tagged value
Truthy(v) ==
    CASE v.type = "NoneType" -> FALSE
      [] v.type = "dict" -> DOMAIN v.value # {}
      [] v.type = "list" -> Len(v.value) # 0

\* bool(s) of an Optional[str]
TruthyStr(s) == s # NoneStr /\ s # ""

\* bool(i) of an Optional[int]
TruthyId(i) == i # NoneId /\ i # 0

\* {**a, **d}: the keys of d win
DictMerge(a, d) == [k \in DOMAIN a \cup DOMAIN d |-> IF k \in DOMAIN d THEN d[k] ELSE a[k]]

\* outcome of evaluating a Python expression: a value or an exception
Ret(v) == [raised |-> FALSE, value |-> v]
Raise(e) == [raised |-> TRUE, exc |-> e]

---------------------------------------------------------------------------
(* Rank authority *)

RANK_HIERARCHY ==
    ("Aspirant" :> 1) @@ ("Novice" :> 2) @@ ("Adept" :> 3) @@ ("Crusader" :> 4) @@
    ("Paladin" :> 5) @@ ("Exemplar" :> 6) @@ ("Prospect" :> 7) @@ ("Commander" :> 8) @@
    ("Marshal" :> 9) @@ ("General" :> 10) @@ ("Chief General" :> 11)

TableRanks == DOMAIN RANK_HIERARCHY

\* rank names outside the table: an unlisted name, a name differing in case, the empty string, None
UnknownRanks == {"Recruit", "general", "", NoneStr}

RankNames == TableRanks \cup UnknownRanks

get_rank_level_default1(rank_name) ==
    IF rank_name \in DOMAIN RANK_HIERARCHY THEN RANK_HIERARCHY[rank_name] ELSE 1

get_rank_level(rank_name) ==
    IF rank_name \in DOMAIN RANK_HIERARCHY THEN RANK_HIERARCHY[rank_name] ELSE 0

SelfReason == <<"You cannot change your own rank.">>
UnknownUserReason(u) == <<"Unknown user rank: ", u>>
UnknownTargetReason(t) == <<"Unknown target rank: ", t>>
DeniedReason(u, t) ==
    <<"You don't have permission to change this member's rank. The target is a **", t,
      "** and you are a **", u, "**. You can only change ranks of members below your level.">>
GrantedReason == <<"Permission granted">>

can_modify_rank_nonstrict(u_rank, t_rank, t_id, u_id) ==
    IF TruthyId(t_id) /\ TruthyId(u_id) /\ t_id = u_id
    THEN [allowed |-> FALSE, reason |-> SelfReason]
    ELSE LET user_level == get_rank_level(u_rank)
             target_level == get_rank_level(t_rank)
         IN  IF user_level = 0 THEN [allowed |-> FALSE, reason |-> UnknownUserReason(u_rank)]
             ELSE IF target_level = 0 THEN [allowed |-> FALSE, reason |-> UnknownTargetReason(t_rank)]
             ELSE IF user_level < target_level
                  THEN [allowed |-> FALSE, reason |-> DeniedReason(u_rank, t_rank)]
             ELSE [allowed |-> TRUE, reason |-> GrantedReason]

can_modify_rank(u_rank, t_rank, t_id, u_id) ==
    IF TruthyId(t_id) /\ TruthyId(u_id) /\ t_id = u_id
    THEN [allowed |-> FALSE, reason |-> SelfReason]
    ELSE LET user_level == get_rank_level(u_rank)
             target_level == get_rank_level(t_rank)
         IN  IF user_level = 0 THEN [allowed |-> FALSE, reason |-> UnknownUserReason(u_rank)]
             ELSE IF target_level = 0 THEN [allowed |-> FALSE, reason |-> UnknownTargetReason(t_rank)]
             ELSE IF user_level <= target_level
                  THEN [allowed |-> FALSE, reason |-> DeniedReason(u_rank, t_rank)]
             ELSE [allowed |-> TRUE, reason |-> GrantedReason]

---------------------------------------------------------------------------
(* Remote service: what one HTTP call can produce *)

Statuses == {200, 404, 429}

\* session.request(...) or response.json() raised: an aiohttp.ClientError
\* (refused connection, DNS, timeout, ContentTypeError of a non-JSON body)
\* or any other Exception (a body that is not valid JSON)
ClientErrors == {[kind |-> "ClientError", cause |-> "Cannot connect to host"],
                 [kind |-> "ClientError", cause |-> "unexpected mimetype: text/html"]}
OtherErrors == {[kind |-> "Exception", cause |-> "Expecting value: line 1 column 1"]}

HttpResponses(bodies) == {[kind |-> "response", status |-> s, body |-> b] : s \in Statuses, b \in bodies}

HttpOutcomes(bodies) == HttpResponses(bodies) \cup ClientErrors \cup OtherErrors

Ids == 0..MaxId
IdPart == {EmptyDict} \cup {[id |-> i] : i \in Ids}
RankPart == {EmptyDict} \cup {[current_rank |-> r] : r \in TableRanks \cup {"Recruit"}}

\* a member object of a search response; "id" or "current_rank" may be missing
MemberDicts == {DictMerge(i, r) : i \in IdPart, r \in RankPart}

\* a further match listed after the first one
OtherMatch == [id |-> MaxId + 1, current_rank |-> "Aspirant"]

RECURSIVE Others(_)
Others(n) == IF n = 0 THEN <<>> ELSE Append(Others(n - 1), OtherMatch)

MatchLists == {<<>>} \cup {<<m>> \o Others(n) : m \in MemberDicts, n \in 0..(MaxMatches - 1)}

SuccessPart == {EmptyDict, [success |-> TRUE], [success |-> FALSE]}
MatchesPart == {EmptyDict} \cup {[matches |-> ms] : ms \in MatchLists}
ExtraPart == {EmptyDict,
              [error |-> "too_many_requests", message |-> <<"slow down">>],
              [retry_after |-> 30]}

\* JSON bodies of GET /members/search: an object, or a JSON array
SearchBodies ==
    {PyList(<<>>)} \cup
    {PyDict(DictMerge(DictMerge(s, m), e)) : s \in SuccessPart, m \in MatchesPart, e \in ExtraPart}

\* JSON bodies of PATCH /members/{id}/rank
PatchBodies ==
    {PyList(<<>>), PyDict(EmptyDict),
     PyDict([success |-> TRUE, message |-> <<"Rank changed">>]),
     PyDict([success |-> FALSE, error |-> "invalid_rank", message |-> <<"Invalid rank">>]),
     PyDict([error |-> "too_many_requests", retry_after |-> 30])}

---------------------------------------------------------------------------
(* Membership API client *)

RateLimitEnvelope ==
    [success |-> FALSE, error |-> "rate_limit",
     message |-> <<"Rate limit exceeded. Please wait a moment and try again.">>]

ConnectionErrorEnvelope(cause) ==
    [success |-> FALSE, error |-> "connection_error",
     message |-> <<"Failed to connect to TF System: ", cause>>]

UnknownErrorEnvelope(cause) ==
    [success |-> FALSE, error |-> "unknown_error",
     message |-> <<"Unexpected error: ", cause>>]

\* TFSystemAPI._request: the value returned for one outcome of the HTTP call.
\* On status 429 the body is unpacked into the envelope literal after its
\* fixed keys; unpacking a body that is not a mapping raises TypeError inside
\* the try block, which the `except Exception` clause turns into unknown_error.
_request(o) ==
    IF o.kind = "ClientError" THEN PyDict(ConnectionErrorEnvelope(o.cause))
    ELSE IF o.kind = "Exception" THEN PyDict(UnknownErrorEnvelope(o.cause))
    ELSE IF o.status = 429
         THEN IF o.body.type = "dict"
              THEN PyDict(DictMerge(RateLimitEnvelope, o.body.value))
              ELSE PyDict(UnknownErrorEnvelope("argument after ** must be a mapping"))
    ELSE o.body

\* the request search_member(name) hands to _request
search_member(name) ==
    [method |-> "GET", endpoint |-> <<"/members/search">>, params |-> [q |-> name, field |-> "both"]]

\* the request change_member_rank(member_id, ...) hands to _request
change_member_rank(member_id) ==
    [method |-> "PATCH", endpoint |-> <<"/members/", member_id, "/rank">>]

\* the request get_status() hands to _request
get_status == [method |-> "GET", endpoint |-> <<"/status">>]

find_member_by_name_last(res) ==
    IF res.type # "dict" THEN Raise("AttributeError")
    ELSE LET d == res.value
         IN  IF /\ "success" \in DOMAIN d /\ d.success
                /\ "matches" \in DOMAIN d /\ Len(d.matches) > 0
             THEN Ret(PyDict(d.matches[Len(d.matches)]))
             ELSE Ret(PyNone)

\* TFSystemAPI.find_member_by_name, applied to the value search_member returned:
\* result.get(...) on a value that is not a dict raises AttributeError
find_member_by_name(res) ==
    IF res.type # "dict" THEN Raise("AttributeError")
    ELSE LET d == res.value
         IN  IF /\ "success" \in DOMAIN d /\ d.success
                /\ "matches" \in DOMAIN d /\ Len(d.matches) > 0
             THEN Ret(PyDict(d.matches[1]))
             ELSE Ret(PyNone)

member_not_found_misnamed(name) ==
    [success |-> FALSE, error |-> "not_found",
     message |-> <<"Could not find member with name \"", name, "\"">>]

\* change_rank_by_name: the envelope returned when no member was resolved
member_not_found(name) ==
    [success |-> FALSE, error |-> "member_not_found",
     message |-> <<"Could not find member with name \"", name, "\"">>]

\* change_rank_by_name: the envelope returned when can_modify_rank denies
permission_denied(reason_msg) ==
    [success |-> FALSE, error |-> "permission_denied", message |-> reason_msg]

\* argument member_name of change_rank_by_name
MemberNames == {"alice"}

OptIds == Ids \cup {NoneId}

---------------------------------------------------------------------------
(* State machine *)

NoCall == [allowed |-> FALSE, reason |-> <<>>]

Init ==
    /\ op = ""
    /\ pc = "idle"
    /\ member_name = NoneStr
    /\ user_rank = NoneStr
    /\ target_rank = NoneStr
    /\ target_member_id = NoneId
    /\ user_member_id = NoneId
    /\ can_modify = NoCall
    /\ discord_user_id = NoneId
    /\ requests = <<>>
    /\ responses = <<>>
    /\ returns = <<>>
    /\ member = PyNone
    /\ result = PyNone
    /\ exc = ""

\* a direct call of can_modify_rank(user_rank, target_rank, target_member_id, user_member_id)
CallCanModifyRank ==
    /\ pc = "idle"
    /\ \E u \in RankNames, t \in RankNames, tid \in OptIds, uid \in OptIds :
          /\ user_rank' = u
          /\ target_rank' = t
          /\ target_member_id' = tid
          /\ user_member_id' = uid
          /\ can_modify' = can_modify_rank(u, t, tid, uid)
    /\ op' = "can_modify_rank"
    /\ pc' = "done"
    /\ UNCHANGED <<member_name, discord_user_id, requests, responses, returns, member, result, exc>>

\* get_status(): issues GET /status
CallGetStatus ==
    /\ pc = "idle"
    /\ requests' = Append(requests, get_status)
    /\ op' = "get_status"
    /\ pc' = "await_status"
    /\ UNCHANGED <<member_name, user_rank, target_rank, target_member_id, user_member_id, can_modify,
                   discord_user_id, responses, returns, member, result, exc>>

\* get_status(): returns what _request returns
StatusResponse ==
    /\ pc = "await_status"
    /\ \E o \in HttpOutcomes(PatchBodies) :
          /\ responses' = Append(responses, o)
          /\ returns' = Append(returns, _request(o))
          /\ result' = _request(o)
    /\ pc' = "done"
    /\ UNCHANGED <<op, member_name, user_rank, target_rank, target_member_id, user_member_id, can_modify,
                   discord_user_id, requests, member, exc>>

\* change_rank_by_name(member_name, new_rank, reason, discord_user_id, user_rank)
\* up to its first await: find_member_by_name -> search_member -> _request
CallChangeRankByName ==
    /\ pc = "idle"
    /\ \E u \in RankNames, a \in OptIds, n \in MemberNames :
          /\ member_name' = n
          /\ user_rank' = u
          /\ discord_user_id' = a
          /\ requests' = Append(requests, search_member(n))
    /\ op' = "change_rank_by_name"
    /\ pc' = "await_search"
    /\ UNCHANGED <<target_rank, target_member_id, user_member_id, can_modify,
                   responses, returns, member, result, exc>>

\* change_rank_by_name from the search response to its return or its next await
SearchResponse ==
    /\ pc = "await_search"
    /\ \E o \in HttpOutcomes(SearchBodies) :
        LET r == _request(o)
            f == find_member_by_name(r)
        IN  /\ responses' = Append(responses, o)
            /\ returns' = Append(returns, r)
            /\ IF f.raised
               THEN /\ pc' = "raised"
                    /\ exc' = f.exc
                    /\ UNCHANGED <<member, result, requests, can_modify, target_rank,
                                   target_member_id, user_member_id>>
               ELSE
               /\ member' = f.value
               /\ IF ~Truthy(f.value)
                  THEN /\ pc' = "done"
                       /\ result' = PyDict(member_not_found(member_name))
                       /\ UNCHANGED <<exc, requests, can_modify, target_rank,
                                      target_member_id, user_member_id>>
                  ELSE
                  LET m == f.value.value
                      checked == TruthyStr(user_rank)
                      perm == can_modify_rank(user_rank, m.current_rank, NoneId, NoneId)
                  IN  IF checked /\ "current_rank" \notin DOMAIN m
                      THEN /\ pc' = "raised"
                           /\ exc' = "KeyError"
                           /\ UNCHANGED <<result, requests, can_modify, target_rank,
                                          target_member_id, user_member_id>>
                      ELSE
                      /\ IF checked
                         THEN /\ can_modify' = perm
                              /\ target_rank' = m.current_rank
                              /\ target_member_id' = NoneId
                              /\ user_member_id' = NoneId
                         ELSE UNCHANGED <<can_modify, target_rank, target_member_id, user_member_id>>
                      /\ IF checked /\ ~perm.allowed
                         THEN /\ pc' = "done"
                              /\ result' = PyDict(permission_denied(perm.reason))
                              /\ UNCHANGED <<exc, requests>>
                         ELSE IF "id" \notin DOMAIN m
                         THEN /\ pc' = "raised"
                              /\ exc' = "KeyError"
                              /\ UNCHANGED <<result, requests>>
                         ELSE /\ pc' = "await_patch"
                              /\ requests' = Append(requests, change_member_rank(m.id))
                              /\ UNCHANGED <<result, exc>>
    /\ UNCHANGED <<op, member_name, user_rank, discord_user_id>>

\* change_rank_by_name returns what change_member_rank -> _request returns
PatchResponse ==
    /\ pc = "await_patch"
    /\ \E o \in HttpOutcomes(PatchBodies) :
          /\ responses' = Append(responses, o)
          /\ returns' = Append(returns, _request(o))
          /\ result' = _request(o)
    /\ pc' = "done"
    /\ UNCHANGED <<op, member_name, user_rank, target_rank, target_member_id, user_member_id, can_modify,
                   discord_user_id, requests, member, exc>>

Next ==
    \/ CallCanModifyRank
    \/ CallGetStatus
    \/ StatusResponse
    \/ CallChangeRankByName
    \/ SearchResponse
    \/ PatchResponse

Spec == Init /\ [][Next]_vars

---------------------------------------------------------------------------
(* Properties *)

\* can_modify_rank was called directly and has returned
CanModifyReturned == op = "can_modify_rank" /\ pc = "done"

\* both ids were passed (neither is None)
BothIdsProvided == target_member_id # NoneId /\ user_member_id # NoneId

\* change_rank_by_name has handled the search response
LookupDone == op = "change_rank_by_name" /\ pc \in {"await_patch", "done", "raised"}

\* a PATCH /members/{id}/rank request was issued
PatchIssued == \E i \in 1..Len(requests) : requests[i].method = "PATCH"

\* a failure envelope built by _request itself
IsPrimitiveFailure(r) ==
    /\ r.type = "dict"
    /\ "success" \in DOMAIN r.value /\ r.value.success = FALSE
    /\ "error" \in DOMAIN r.value
    /\ r.value.error \in {"rate_limit", "connection_error", "unknown_error"}

\* C1: for two ranks of the table, with no ids or with different ids,
\* can_modify_rank allows iff the actor's level is strictly greater than the
\* target's; equal levels are denied.
C1_AllowedIffStrictlyHigher ==
    ( /\ CanModifyReturned
      /\ user_rank \in TableRanks /\ target_rank \in TableRanks
      /\ \/ target_member_id = NoneId /\ user_member_id = NoneId
         \/ target_member_id # user_member_id )
    => /\ can_modify.allowed <=> get_rank_level(user_rank) > get_rank_level(target_rank)
       /\ get_rank_level(user_rank) = get_rank_level(target_rank) => ~can_modify.allowed

\* C1 witness: Commander on Commander with different ids is denied
C1_Witness ==
    /\ CanModifyReturned
    /\ user_rank = "Commander" /\ target_rank = "Commander"
    /\ target_member_id = 1 /\ user_member_id = 2
    /\ ~can_modify.allowed

\* C2: whenever both ids are provided and equal, can_modify_rank denies with
\* the self-modification reason, for every id value (0 included) and every
\* pair of rank names.
C2_EqualIdsDenied ==
    (CanModifyReturned /\ BothIdsProvided /\ target_member_id = user_member_id)
    => can_modify = [allowed |-> FALSE, reason |-> SelfReason]

\* C3: get_rank_level is 0 outside the table, and can_modify_rank (ids not
\* both provided and equal) denies when a rank is outside the table, naming
\* the actor rank when it is unknown, otherwise the target rank.
C3_UnknownRankDenied ==
    (CanModifyReturned /\ ~(BothIdsProvided /\ target_member_id = user_member_id))
    => /\ user_rank \notin TableRanks
            => /\ get_rank_level(user_rank) = 0
               /\ can_modify = [allowed |-> FALSE, reason |-> UnknownUserReason(user_rank)]
       /\ (user_rank \in TableRanks /\ target_rank \notin TableRanks)
            => /\ get_rank_level(target_rank) = 0
               /\ can_modify = [allowed |-> FALSE, reason |-> UnknownTargetReason(target_rank)]

\* C3 witness: both ranks unknown, the reason names the actor rank
C3_Witness ==
    /\ CanModifyReturned
    /\ user_rank = "Recruit" /\ target_rank = "general"
    /\ target_member_id = 1 /\ user_member_id = 2
    /\ can_modify.reason = <<"Unknown user rank: ", "Recruit">>

\* C4: change_rank_by_name with a resolved target and a supplied actor rank
\* (any value but None, the empty string included) that can_modify_rank
\* denies returns permission_denied with can_modify_rank's reason and issues
\* no PATCH.
C4_DeniedNeverPatches ==
    ( /\ LookupDone
      /\ Truthy(member) /\ {"id", "current_rank"} \subseteq DOMAIN member.value
      /\ user_rank # NoneStr
      /\ ~can_modify_rank(user_rank, member.value.current_rank, NoneId, NoneId).allowed )
    => /\ pc = "done"
       /\ result = PyDict(permission_denied(
              can_modify_rank(user_rank, member.value.current_rank, NoneId, NoneId).reason))
       /\ ~PatchIssued

\* the search response reports success with an empty match list
SearchFoundNothing ==
    /\ Len(responses) >= 1
    /\ responses[1].kind = "response"
    /\ responses[1].body.type = "dict"
    /\ "success" \in DOMAIN responses[1].body.value /\ responses[1].body.value.success
    /\ "matches" \in DOMAIN responses[1].body.value /\ responses[1].body.value.matches = <<>>

\* C5: change_rank_by_name whose search reports success with no match
\* returns member_not_found and issues no PATCH.
C5_NotFoundNeverPatches ==
    (LookupDone /\ SearchFoundNothing)
    => /\ pc = "done"
       /\ result.type = "dict"
       /\ result.value.success = FALSE
       /\ result.value.error = "member_not_found"
       /\ ~PatchIssued

\* C5 witness: a 200 response {success: true, matches: []} was handled
C5_Witness ==
    /\ LookupDone /\ SearchFoundNothing
    /\ responses[1].status = 200
    /\ user_rank = "General"
    /\ pc = "done"

\* C6: every HTTP 429 response is returned by _request as an envelope with
\* success = false and error = "rate_limit" that carries every field of the
\* response body.
C6_RateLimitEnvelope ==
    \A i \in 1..Len(responses) :
        (responses[i].kind = "response" /\ responses[i].status = 429)
        => /\ returns[i].type = "dict"
           /\ "success" \in DOMAIN returns[i].value /\ returns[i].value.success = FALSE
           /\ "error" \in DOMAIN returns[i].value /\ returns[i].value.error = "rate_limit"
           /\ responses[i].body.type = "dict"
                => DOMAIN responses[i].body.value \subseteq DOMAIN returns[i].value

\* C7: no operation raises: whatever the outcome of the HTTP call (any
\* status, any JSON body shape, a transport failure, any other exception),
\* every operation built on _request returns a result, no exception escapes.
C7_NeverRaises ==
    /\ pc # "raised"
    /\ exc = ""

\* C8: a failure envelope _request produced during a sub-call of
\* change_rank_by_name (the lookup included) is what change_rank_by_name
\* returns.
C8_FailurePropagatedUnchanged ==
    (op = "change_rank_by_name" /\ pc \in {"done", "raised"})
    => \A i \in 1..Len(returns) :
          IsPrimitiveFailure(returns[i]) => (pc = "done" /\ result = returns[i])

\* C9: no call of change_rank_by_name issues the PATCH when the requesting
\* actor is the resolved target member.
C9_NoSelfModification ==
    (op = "change_rank_by_name" /\ discord_user_id # NoneId)
    => \A i \in 1..Len(requests) :
          requests[i].method = "PATCH" => requests[i] # change_member_rank(discord_user_id)

\* C10: a call of change_rank_by_name sends exactly one GET /members/search,
\* then at most one PATCH /members/{id}/rank; the PATCH comes only after the
\* search returned success with a non-empty match list and goes to the id of
\* the first match; nothing is sent after a failure envelope, and no request
\* is sent twice.
C10_RequestSequence ==
    op = "change_rank_by_name"
    => /\ Len(requests) \in {1, 2}
       /\ requests[1] = search_member(member_name)
       /\ Len(responses) <= Len(requests)
       /\ Len(requests) = 2
            => /\ Len(returns) >= 1
               /\ returns[1].type = "dict"
               /\ "success" \in DOMAIN returns[1].value /\ returns[1].value.success
               /\ "matches" \in DOMAIN returns[1].value /\ Len(returns[1].value.matches) > 0
               /\ "id" \in DOMAIN returns[1].value.matches[1]
               /\ requests[2] = change_member_rank(returns[1].value.matches[1].id)
               /\ requests[2] # requests[1]
       /\ \A i \in 1..Len(returns) : IsPrimitiveFailure(returns[i]) => Len(requests) = i

\* C10 witness: the PATCH was answered after a search that listed two members
C10_Witness ==
    /\ op = "change_rank_by_name" /\ pc = "done"
    /\ Len(requests) = 2 /\ Len(responses) = 2
    /\ Len(returns[1].value.matches) = 2
    /\ requests[2].endpoint = <<"/members/", 1, "/rank">>

====
